---- MODULE Spec2Model ----
(***************************************************************************)
(* Model of sparklines.py: the Sparkline and Sparkbar constructors (the    *)
(* data-to-geometry transform) and the "+" composition of glyphs into a    *)
(* MultiSparkline.                                                         *)
(*                                                                         *)
(* Numbers.  numpy computes in IEEE-754 doubles.  A number is modelled as  *)
(* an exact fraction [n, d] in lowest terms with d > 0, extended with the  *)
(* three IEEE specials that a division by zero produces: d = 0 and n = 1   *)
(* is +inf, n = -1 is -inf, n = 0 is NaN.  Rounding is not modelled.       *)
(*                                                                         *)
(* Objects.  Python lists and MultiSparkline instances are heap objects    *)
(* with identity: lists[i] is the content of list object i and             *)
(* multis[k].values is the index of the list object that composite k       *)
(* holds, so that sharing and in-place mutation are expressible.           *)
(***************************************************************************)
EXTENDS Integers, Sequences, FiniteSets, TLC

VARIABLES
    call,       \* the constructor call under way: [cls, data, kwargs]
    sparks,     \* the SparkBase instances built so far (their context dicts)
    lists,      \* heap of Python list objects (child lists)
    multis,     \* heap of MultiSparkline instances: [values, width, height]
    outcome     \* what the last operation did: [op, self, other, raised, ret]

vars == <<call, sparks, lists, multis, outcome>>

----------------------------------------------------------------------------
(* Bounds of the model *)

\* longest data series passed to a constructor
MaxLen == 3
\* sample values are drawn from 0..MaxVal
MaxVal == 2
\* number of MultiSparkline instances that may be allocated
MaxMultis == 2
\* longest sequence handed to the MultiSparkline constructor
MaxSeq == 2

----------------------------------------------------------------------------
(* Extended rational arithmetic standing for numpy float arithmetic *)

Abs(i) == IF i < 0 THEN -i ELSE i

Sign(i) == IF i < 0 THEN -1 ELSE IF i > 0 THEN 1 ELSE 0

RECURSIVE GCD(_, _)
GCD(a, b) == IF b = 0 THEN a ELSE GCD(b, a % b)

Norm(n, d) ==
    IF d = 0 THEN [n |-> Sign(n), d |-> 0]
    ELSE LET g == GCD(Abs(n), Abs(d))
             s == IF d < 0 THEN -1 ELSE 1
         IN  [n |-> (s * n) \div g, d |-> (s * d) \div g]

F(i) == [n |-> i, d |-> 1]

NaN == [n |-> 0, d |-> 0]

IsNaN(a) == a.d = 0 /\ a.n = 0

IsFinite(a) == a.d # 0

FNeg(a) == [n |-> -a.n, d |-> a.d]

FAdd(a, b) ==
    IF a.d = 0 \/ b.d = 0
    THEN IF IsNaN(a) \/ IsNaN(b) THEN NaN
         ELSE IF a.d = 0 /\ b.d = 0 THEN (IF a.n = b.n THEN a ELSE NaN)
         ELSE IF a.d = 0 THEN a ELSE b
    ELSE Norm(a.n * b.d + b.n * a.d, a.d * b.d)

FSub(a, b) == FAdd(a, FNeg(b))

FMul(a, b) == Norm(a.n * b.n, a.d * b.d)

Recip(b) == IF b.n < 0 THEN [n |-> -b.d, d |-> -b.n] ELSE [n |-> b.d, d |-> b.n]

FDiv(a, b) == FMul(a, Recip(b))

\* a <= b; every comparison with NaN is false
FLe(a, b) ==
    /\ ~IsNaN(a)
    /\ ~IsNaN(b)
    /\ IF a.d = 0 /\ b.d = 0 THEN a.n <= b.n
       ELSE IF a.d = 0 THEN a.n < 0
       ELSE IF b.d = 0 THEN b.n > 0
       ELSE a.n * b.d <= b.n * a.d

\* a == b; NaN is equal to nothing
FEq(a, b) == ~IsNaN(a) /\ ~IsNaN(b) /\ a = b

----------------------------------------------------------------------------
(* numpy helpers used by the constructors *)

\* np.array(data) for a list of Python ints
np_array(data) == [i \in DOMAIN data |-> F(data[i])]

RECURSIVE SeqMin(_)
SeqMin(a) ==
    IF Len(a) = 1 THEN a[1]
    ELSE LET m == SeqMin(Tail(a)) IN IF FLe(a[1], m) THEN a[1] ELSE m

RECURSIVE SeqMax(_)
SeqMax(a) ==
    IF Len(a) = 1 THEN a[1]
    ELSE LET m == SeqMax(Tail(a)) IN IF FLe(m, a[1]) THEN a[1] ELSE m

\* np.linspace(start, stop, num=num)
linspace(start, stop, num) ==
    [i \in 1..num |->
        IF num = 1 THEN start
        ELSE FAdd(start, FMul(F(i - 1), FDiv(FSub(stop, start), F(num - 1))))]

\* list(zip(xs, ys))
zip(xs, ys) == [i \in DOMAIN xs |-> <<xs[i], ys[i]>>]

\* the subsequence of s at the indices where cnd holds, in order (np.where)
RECURSIVE SelectIx(_, _, _)
SelectIx(s, cnd, i) ==
    IF i > Len(s) THEN <<>>
    ELSE (IF cnd[i] THEN <<s[i]>> ELSE <<>>) \o SelectIx(s, cnd, i + 1)

\* dict.get(key, default)
Get(ctx, key, default) == IF key \in DOMAIN ctx THEN ctx[key] ELSE default

\* truth value of ctx.get(key) for a flag
Flag(ctx, key) == key \in DOMAIN ctx /\ ctx[key] = TRUE

----------------------------------------------------------------------------
(* class SparkBase / Sparkline *)

SparkBase_DEFAULTS == [width |-> F(150), height |-> F(20)]

Sparkline_DEFAULTS ==
    [height_offset |-> Norm(26, 10), width_offset |-> Norm(26, 10),
     show_max |-> FALSE, show_min |-> FALSE,
     show_start |-> FALSE, show_end |-> FALSE,
     min_color |-> "#ff0000", max_color |-> "#8ca252", line_color |-> "#555"]
    @@ SparkBase_DEFAULTS

\* ymin / ymax of a constructor: the keyword when given, else the observed one
Ymin(ctx, arr) == Get(ctx, "ymin", SeqMin(arr))

Ymax(ctx, arr) == Get(ctx, "ymax", SeqMax(arr))

\* scaled = (data - ymin) / (ymax - ymin)
SparklineScaled(arr, ymin, ymax) ==
    [i \in DOMAIN arr |-> FDiv(FSub(arr[i], ymin), FSub(ymax, ymin))]

\* SparklineRange with the margin taken off one side only
SparklineRange_OneMargin(height, height_offset) ==
    FSub(height, height_offset)

\* range = height - 2 * height_offset
SparklineRange(height, height_offset) ==
    FSub(height, FMul(F(2), height_offset))

\* ys = height_offset + range * (1 - scaled)
SparklineYs(scaled, height, height_offset) ==
    [i \in DOMAIN scaled |->
        FAdd(height_offset,
             FMul(SparklineRange(height, height_offset),
                  FSub(F(1), scaled[i])))]

\* get_condition(data == v)
get_condition(arr, v, points) ==
    SelectIx(points, [i \in DOMAIN arr |-> FEq(arr[i], v)], 1)

SparklineMins(ctx, arr, points) ==
    IF Flag(ctx, "show_min") THEN get_condition(arr, Ymin(ctx, arr), points)
    ELSE <<>>

SparklineMaxs(ctx, arr, points) ==
    IF Flag(ctx, "show_max") THEN get_condition(arr, Ymax(ctx, arr), points)
    ELSE <<>>

\* Sparkline.__init__: the context dict of the new instance
Sparkline__init__(data, kwargs) ==
    LET ctx    == kwargs @@ Sparkline_DEFAULTS
        arr    == np_array(data)
        scaled == SparklineScaled(arr, Ymin(ctx, arr), Ymax(ctx, arr))
        ys     == SparklineYs(scaled, ctx.height, ctx.height_offset)
        xs     == linspace(ctx.width_offset,
                           FSub(ctx.width, ctx.width_offset), Len(arr))
        points == zip(xs, ys)
    IN  [points |-> points,
         maxs   |-> SparklineMaxs(ctx, arr, points),
         mins   |-> SparklineMins(ctx, arr, points)] @@ ctx

----------------------------------------------------------------------------
(* class Sparkbar *)

Sparkbar_DEFAULTS ==
    [bar_spacing |-> F(0), bar_color |-> "#000000"] @@ SparkBase_DEFAULTS

\* if bar_spacing == 0.0: bar_spacing = -0.3
BarSpacing(ctx) ==
    IF FEq(ctx.bar_spacing, F(0)) THEN Norm(-3, 10) ELSE ctx.bar_spacing

\* bar_width = ctx.get('bar_width', (width - (size - 1) * bar_spacing) / size)
BarWidth(ctx, size) ==
    Get(ctx, "bar_width",
        FDiv(FSub(ctx.width, FMul(F(size - 1), BarSpacing(ctx))), F(size)))

\* scaled = height * (data - ymin) / (ymax - ymin)
SparkbarScaled(arr, height, ymin, ymax) ==
    [i \in DOMAIN arr |->
        FDiv(FMul(height, FSub(arr[i], ymin)), FSub(ymax, ymin))]

\* SparkbarYs without the inversion that anchors a bar to the bottom
SparkbarYs_NotInverted(height, scaled) ==
    [i \in DOMAIN scaled |-> scaled[i]]

\* ys = height - scaled
SparkbarYs(height, scaled) ==
    [i \in DOMAIN scaled |-> FSub(height, scaled[i])]

\* xs = [(bar_width + bar_spacing) * i for i in range(size)]
SparkbarXs(bar_width, bar_spacing, size) ==
    [i \in 1..size |-> FMul(FAdd(bar_width, bar_spacing), F(i - 1))]

\* Sparkbar.__init__: the context dict of the new instance
Sparkbar__init__(data, kwargs) ==
    LET ctx     == kwargs @@ Sparkbar_DEFAULTS
        arr     == np_array(data)
        size    == Len(arr)
        bw      == BarWidth(ctx, size)
        scaled  == SparkbarScaled(arr, ctx.height, Ymin(ctx, arr), Ymax(ctx, arr))
        ys      == SparkbarYs(ctx.height, scaled)
        xs      == SparkbarXs(bw, BarSpacing(ctx), size)
    IN  [bars |-> [i \in 1..size |-> <<xs[i], ys[i], bw, scaled[i]>>]] @@ ctx

----------------------------------------------------------------------------
(* Constructor calls: the inputs the constructors are applied to *)

NoCall == [cls |-> "none", data |-> <<>>, kwargs |-> [k \in {} |-> 0]]

NoRef == [t |-> "none", i |-> 0]

NoOutcome == [op |-> "none", self |-> NoRef, other |-> NoRef,
              raised |-> "none", ret |-> 0]

\* a keyword that is either left out or given one of vals
Opt(key, vals) == {[k \in {} |-> 0]} \cup {key :> v : v \in vals}

RECURSIVE SeqsUpTo(_, _)
SeqsUpTo(S, n) ==
    IF n = 0 THEN {<<>>}
    ELSE LET shorter == SeqsUpTo(S, n - 1)
         IN  shorter \cup {Append(q, x) : q \in {r \in shorter : Len(r) = n - 1}, x \in S}

\* non-empty series of Python ints (an empty series makes data.min() raise)
Series == SeqsUpTo(0..MaxVal, MaxLen) \ {<<>>}

ScaleKwargs ==
    {a @@ b : a \in Opt("ymin", {F(0), F(1), F(2)}), b \in Opt("ymax", {F(1), F(2)})}

SparklineKwargs ==
    {a @@ b @@ c @@ d @@ e :
        a \in Opt("height", {F(10)}),
        b \in Opt("height_offset", {F(0), F(6)}),
        c \in ScaleKwargs,
        d \in Opt("show_min", {TRUE}),
        e \in Opt("show_max", {TRUE})}

SparkbarKwargs ==
    {a @@ b @@ c @@ d @@ e :
        a \in Opt("height", {F(30)}),
        b \in Opt("width", {F(100)}),
        c \in ScaleKwargs,
        d \in Opt("bar_spacing", {F(0), F(2), F(-1)}),
        e \in Opt("bar_width", {F(10)})}

Calls ==
    [cls : {"Sparkline"}, data : Series, kwargs : SparklineKwargs]
    \cup [cls : {"Sparkbar"}, data : Series, kwargs : SparkbarKwargs]

----------------------------------------------------------------------------
(* The constructors as operations: one call is drawn, then executed *)

InitGlyph ==
    /\ call \in Calls
    /\ sparks = <<>>
    /\ lists = <<>>
    /\ multis = <<>>
    /\ outcome = NoOutcome

SparklineInit ==
    /\ call.cls = "Sparkline"
    /\ sparks = <<>>
    /\ sparks' = <<[cls |-> "Sparkline",
                    context |-> Sparkline__init__(call.data, call.kwargs)]>>
    /\ outcome' = [NoOutcome EXCEPT !.op = "Sparkline"]
    /\ UNCHANGED <<call, lists, multis>>

SparkbarInit ==
    /\ call.cls = "Sparkbar"
    /\ sparks = <<>>
    /\ sparks' = <<[cls |-> "Sparkbar",
                    context |-> Sparkbar__init__(call.data, call.kwargs)]>>
    /\ outcome' = [NoOutcome EXCEPT !.op = "Sparkbar"]
    /\ UNCHANGED <<call, lists, multis>>

NextGlyph == SparklineInit \/ SparkbarInit

SpecGlyph == InitGlyph /\ [][NextGlyph]_vars

\* the glyph built by the call, once it is built
Built == sparks # <<>>

glyph == sparks[1].context

BuiltLine == Built /\ call.cls = "Sparkline"

BuiltBar == Built /\ call.cls = "Sparkbar"

----------------------------------------------------------------------------
(* Composition: SparkBase.__add__, MultiSparkline.__init__ / __add__ *)

\* references to values: a SparkBase instance, a MultiSparkline instance, or
\* a value that is neither (an int, a string, None)
SparkRef(i) == [t |-> "spark", i |-> i]

MultiRef(k) == [t |-> "multi", i |-> k]

OtherRef == [t |-> "other", i |-> 0]

Renderables ==
    {SparkRef(i) : i \in DOMAIN sparks} \cup {MultiRef(k) : k \in DOMAIN multis}

Operands == Renderables \cup {OtherRef}

isinstance_SparkBase(ref) == ref.t = "spark"

isinstance_MultiSparkline(ref) == ref.t = "multi"

\* the width / height attribute of a value
width(ref) ==
    IF ref.t = "spark" THEN sparks[ref.i].context.width ELSE multis[ref.i].width

height(ref) ==
    IF ref.t = "spark" THEN sparks[ref.i].context.height ELSE multis[ref.i].height

SameDimensions(self, other) ==
    width(self) = width(other) /\ height(self) = height(other)

NoObj == [values |-> 0, width |-> F(0), height |-> F(0)]

\* an operation that raises: nothing is allocated
Raise(kind) == [raised |-> kind, lists |-> lists, obj |-> NoObj]

\* MultiSparkline.__init__(values), values being list object v of heap:
\* self.values = values or []; width/height of values[0], else 0
MultiSparkline__init__(heap, v) ==
    LET truthy == heap[v] # <<>>
    IN  [raised |-> "none",
         lists  |-> IF truthy THEN heap ELSE Append(heap, <<>>),
         obj    |-> [values |-> IF truthy THEN v ELSE Len(heap) + 1,
                     width  |-> IF truthy THEN width(heap[v][1]) ELSE F(0),
                     height |-> IF truthy THEN height(heap[v][1]) ELSE F(0)]]

\* MultiSparkline(<list expression>): the expression builds a new list object
NewMulti(content) ==
    MultiSparkline__init__(Append(lists, content), Len(lists) + 1)

\* SparkBase.__add__(self, other)
SparkBase__add__(self, other) ==
    IF isinstance_SparkBase(other)
    THEN IF SameDimensions(self, other)
         THEN NewMulti(<<self, other>>)
         ELSE Raise("ValueError")
    ELSE Raise("TypeError")

\* MultiSparkline.__add__ extending self.values in place (+= / append) and
\* handing the same list object to the new composite
MultiSparkline__add__InPlace(self, other) ==
    LET v == multis[self.i].values
        extended(more) == [lists EXCEPT ![v] = @ \o more]
    IN  IF isinstance_MultiSparkline(other) /\ SameDimensions(self, other)
        THEN MultiSparkline__init__(extended(lists[multis[other.i].values]), v)
        ELSE IF isinstance_SparkBase(other) /\ SameDimensions(self, other)
        THEN MultiSparkline__init__(extended(<<other>>), v)
        ELSE Raise("TypeError")

\* MultiSparkline.__add__ raising the dimension error for every rejected
\* operand
MultiSparkline__add__WrongKind(self, other) ==
    IF isinstance_MultiSparkline(other) /\ SameDimensions(self, other)
    THEN NewMulti(lists[multis[self.i].values] \o lists[multis[other.i].values])
    ELSE IF isinstance_SparkBase(other) /\ SameDimensions(self, other)
    THEN NewMulti(lists[multis[self.i].values] \o <<other>>)
    ELSE Raise("ValueError")

\* MultiSparkline.__add__(self, other)
MultiSparkline__add__(self, other) ==
    IF isinstance_MultiSparkline(other) /\ SameDimensions(self, other)
    THEN NewMulti(lists[multis[self.i].values] \o lists[multis[other.i].values])
    ELSE IF isinstance_SparkBase(other) /\ SameDimensions(self, other)
    THEN NewMulti(lists[multis[self.i].values] \o <<other>>)
    ELSE Raise("TypeError")

\* the effect of an operation with result r on the heap; operations are
\* explored until MaxMultis composites exist
Effect(op, self, other, r) ==
    /\ Len(multis) < MaxMultis
    /\ lists' = r.lists
    /\ multis' = IF r.raised = "none" THEN Append(multis, r.obj) ELSE multis
    /\ outcome' = [op |-> op, self |-> self, other |-> other,
                   raised |-> r.raised,
                   ret |-> IF r.raised = "none" THEN Len(multis) + 1 ELSE 0]
    /\ UNCHANGED <<call, sparks>>

\* self + other, self a Sparkline or Sparkbar
AddToSpark(self, other) ==
    /\ isinstance_SparkBase(self)
    /\ Effect("add", self, other, SparkBase__add__(self, other))

\* self + other, self a MultiSparkline
AddToMulti(self, other) ==
    /\ isinstance_MultiSparkline(self)
    /\ Effect("add", self, other, MultiSparkline__add__(self, other))

\* MultiSparkline(values) called with a new list of Sparkline objects, as the
\* class documents its parameter
MultiInit(values) ==
    Effect("MultiSparkline", NoRef, NoRef, NewMulti(values))

SparkRefs == {SparkRef(i) : i \in DOMAIN sparks}

\* the glyphs that exist before any composition: two of the default size
\* 150x20 (a line and a bar set) and two lines of another size
OddSizes == {[height |-> F(25)], [width |-> F(100)]}

Init ==
    /\ call = NoCall
    /\ \E odd \in OddSizes :
          sparks = <<[cls |-> "Sparkline",
                      context |-> Sparkline__init__(<<1, 2>>, [show_max |-> TRUE])],
                     [cls |-> "Sparkbar",
                      context |-> Sparkbar__init__(<<2, 1>>, [bar_spacing |-> F(1)])],
                     [cls |-> "Sparkline",
                      context |-> Sparkline__init__(<<1, 2>>, odd)]>>
    /\ lists = <<>>
    /\ multis = <<>>
    /\ outcome = NoOutcome

Next ==
    \/ \E self \in Renderables, other \in Operands : AddToSpark(self, other)
    \/ \E self \in Renderables, other \in Operands : AddToMulti(self, other)
    \/ \E values \in SeqsUpTo(SparkRefs, MaxSeq) : MultiInit(values)

Spec == Init /\ [][Next]_vars

----------------------------------------------------------------------------
(* Properties of composition *)

DimensionMismatch == "ValueError"

UnsupportedOperand == "TypeError"

\* the child list of composite k
children(k) == lists[multis[k].values]

\* what an operand contributes: its children, or itself if a leaf
Flat(ref) == IF ref.t = "spark" THEN <<ref>> ELSE children(ref.i)

IsLeafSeq(q) == \A i \in DOMAIN q : q[i].t = "spark"

LastWasAdd == outcome.op = "add"

BothRenderable == outcome.self.t # "other" /\ outcome.other.t \in {"spark", "multi"}

\* C1: combining two renderables (leaf or composite, in either position)
\* whose width or height differ fails with DimensionMismatch, which is not
\* the kind used for non-renderable operands, and returns no composite.
C1_MismatchRaisesDimensionMismatch ==
    LastWasAdd /\ BothRenderable /\ ~SameDimensions(outcome.self, outcome.other)
        => /\ outcome.raised = DimensionMismatch
           /\ outcome.raised # UnsupportedOperand
           /\ outcome.ret = 0

\* C2: combining operands that together hold leaf glyphs of one size, the
\* composite operand on the left or on the right, succeeds and yields the
\* flat child list: the left operand's children (or itself) followed by the
\* right operand's; so (a+b)+c and a+(b+c) both give [a,b,c].
C2_FlattenEitherSide ==
    /\ LastWasAdd /\ BothRenderable
    /\ SameDimensions(outcome.self, outcome.other)
    /\ IsLeafSeq(Flat(outcome.self) \o Flat(outcome.other))
    /\ \A i \in DOMAIN Flat(outcome.other) :
           SameDimensions(outcome.self, Flat(outcome.other)[i])
    => /\ outcome.raised = "none"
       /\ outcome.ret \in DOMAIN multis
       /\ children(outcome.ret) = Flat(outcome.self) \o Flat(outcome.other)

\* C3: combining a renderable left operand (leaf or composite) with a
\* non-renderable right operand fails with UnsupportedOperand at combination
\* time and produces no composite.
C3_NonRenderableRaisesUnsupportedOperand ==
    [][outcome'.op = "add" /\ outcome'.other.t = "other"
          => /\ outcome'.raised = UnsupportedOperand
             /\ multis' = multis
             /\ lists' = lists]_vars

\* C3 witness: a composite was combined with a non-renderable and the
\* combination raised.
C3_Witness ==
    /\ LastWasAdd
    /\ outcome.self.t = "multi"
    /\ outcome.other.t = "other"
    /\ outcome.raised = UnsupportedOperand

\* C4: in every composite built by infix or n-ary combination every child
\* has exactly the composite's width and height, which are those of its
\* first member; a sequence with a member of another size is rejected.
C4_ChildrenShareCanvas ==
    \A k \in DOMAIN multis :
        /\ \A i \in DOMAIN children(k) :
               /\ width(children(k)[i]) = multis[k].width
               /\ height(children(k)[i]) = multis[k].height
        /\ children(k) # <<>> =>
               /\ multis[k].width = width(children(k)[1])
               /\ multis[k].height = height(children(k)[1])

\* C5: whether it succeeds or fails, a combination leaves every existing
\* glyph, composite and child list as it was, and the child list of the
\* composite it returns is a list object that did not exist before.
C5_CombineLeavesOperandsUnchanged ==
    [][/\ sparks' = sparks
       /\ \A k \in DOMAIN multis : k \in DOMAIN multis' /\ multis'[k] = multis[k]
       /\ \A l \in DOMAIN lists : l \in DOMAIN lists' /\ lists'[l] = lists[l]
       /\ outcome'.op = "add" /\ outcome'.raised = "none"
            => /\ outcome'.ret \notin DOMAIN multis
               /\ multis'[outcome'.ret].values \notin DOMAIN lists]_vars

\* C5 witness: a composite was combined into a second, longer composite and
\* still holds its own, shorter child list in its own list object.
C5_Witness ==
    /\ LastWasAdd
    /\ outcome.raised = "none"
    /\ outcome.self.t = "multi"
    /\ multis[outcome.ret].values # multis[outcome.self.i].values
    /\ Len(children(outcome.self.i)) < Len(children(outcome.ret))
    /\ SubSeq(children(outcome.ret), 1, Len(children(outcome.self.i)))
           = children(outcome.self.i)

----------------------------------------------------------------------------
(* Vocabulary of the properties of the constructors *)

Samples == {call.data[i] : i \in DOMAIN call.data}

IsConstantSeries == Cardinality(Samples) = 1

ObservedMin == CHOOSE m \in Samples : \A v \in Samples : m <= v

ObservedMax == CHOOSE m \in Samples : \A v \in Samples : v <= m

DefaultScale == "ymin" \notin DOMAIN call.kwargs /\ "ymax" \notin DOMAIN call.kwargs

\* the scale the call asks for: the keyword when given, else the observed value
ScaleMin == IF "ymin" \in DOMAIN call.kwargs THEN call.kwargs.ymin ELSE F(ObservedMin)

ScaleMax == IF "ymax" \in DOMAIN call.kwargs THEN call.kwargs.ymax ELSE F(ObservedMax)

SamplesInScale == \A v \in Samples : FLe(ScaleMin, F(v)) /\ FLe(F(v), ScaleMax)

\* 0 <= height_offset < height / 2
MarginAccepted ==
    /\ FLe(F(0), glyph.height_offset)
    /\ FLe(glyph.height_offset, FDiv(glyph.height, F(2)))
    /\ glyph.height_offset # FDiv(glyph.height, F(2))

LineYsWithinMargins ==
    \A i \in DOMAIN glyph.points :
        /\ FLe(glyph.height_offset, glyph.points[i][2])
        /\ FLe(glyph.points[i][2], FSub(glyph.height, glyph.height_offset))

\* the points of the samples equal to v, in series order
RECURSIVE PointsOfValue(_, _)
PointsOfValue(v, i) ==
    IF i > Len(call.data) THEN <<>>
    ELSE (IF call.data[i] = v THEN <<glyph.points[i]>> ELSE <<>>)
         \o PointsOfValue(v, i + 1)

ShowMin == "show_min" \in DOMAIN call.kwargs /\ call.kwargs.show_min

ShowMax == "show_max" \in DOMAIN call.kwargs /\ call.kwargs.show_max

BarX(i) == glyph.bars[i][1]

BarY(i) == glyph.bars[i][2]

BarW(i) == glyph.bars[i][3]

BarH(i) == glyph.bars[i][4]

BarsAnchored ==
    \A i \in DOMAIN glyph.bars :
        /\ FAdd(BarY(i), BarH(i)) = glyph.height
        /\ F(call.data[i]) = ScaleMin => BarH(i) = F(0)
        /\ F(call.data[i]) = ScaleMax => BarH(i) = glyph.height
        /\ FLe(ScaleMin, F(call.data[i])) /\ FLe(F(call.data[i]), ScaleMax)
            => FLe(F(0), BarY(i)) /\ FLe(F(0), BarH(i))

\* the spacing the caller asked for: -0.3 only when bar_spacing is left out
RequestedSpacing ==
    IF "bar_spacing" \in DOMAIN call.kwargs THEN call.kwargs.bar_spacing
    ELSE Norm(-3, 10)

ExpectedBarWidth ==
    FDiv(FSub(glyph.width, FMul(F(Len(call.data) - 1), RequestedSpacing)),
         F(Len(call.data)))

----------------------------------------------------------------------------
(* Properties of the constructors *)

\* C6: a line built from an all-equal series (a single sample included) with
\* default ymin/ymax has every point at the vertical midline height/2.
C6_ConstantSeriesAtMidline ==
    BuiltLine /\ IsConstantSeries /\ DefaultScale
        => \A i \in DOMAIN glyph.points :
               glyph.points[i][2] = FDiv(glyph.height, F(2))

C8_MarkersAtObservedExtrema ==
    BuiltLine =>
        /\ glyph.maxs = (IF ShowMax THEN PointsOfValue(ObservedMax, 1) ELSE <<>>)
        /\ glyph.mins = (IF ShowMin THEN PointsOfValue(ObservedMin, 1) ELSE <<>>)

C10_BarLayout ==
    BuiltBar /\ "bar_width" \notin DOMAIN call.kwargs =>
        /\ \A i \in DOMAIN glyph.bars :
              /\ BarW(i) = ExpectedBarWidth
              /\ BarX(i) = FMul(F(i - 1), FAdd(ExpectedBarWidth, RequestedSpacing))
        /\ BarX(1) = F(0)
        /\ FAdd(BarX(Len(glyph.bars)), BarW(Len(glyph.bars))) = glyph.width

====
